---- MODULE Spec2Model ----
(***************************************************************************)
(* The azure prompt module of starship: src/src/modules/azure.rs and its   *)
(* configuration src/src/configs/azure.rs.                                 *)
(*                                                                         *)
(* One prompt render calls module(): it loads the module configuration,    *)
(* reads the active subscription id from <dir>/clouds.config, looks the id *)
(* up in <dir>/azureProfile.json and hands the name to the string          *)
(* formatter.  Files are byte sequences (profile) or ini documents         *)
(* (clouds.config); paths are sequences of components; strings taken from  *)
(* the files are byte sequences.                                           *)
(***************************************************************************)
EXTENDS Integers, Sequences, FiniteSets, TLC

\* Largest number of records in a generated "subscriptions" array.
MaxRecords == 2

----------------------------------------------------------------------------
\* Option<T>

None == [some |-> FALSE]
Some(x) == [some |-> TRUE, v |-> x]
IsSome(o) == o.some
IsNone(o) == ~o.some

----------------------------------------------------------------------------
\* Byte strings that occur in the source.

\* "AzureCloud" and "subscription": section and key of clouds.config.
SectionName == "AzureCloud"
KeyName == "subscription"

\* b"subscriptions", b"id", b"name": the JSON keys of azureProfile.json.
KeySubscriptions == <<115, 117, 98, 115, 99, 114, 105, 112, 116, 105, 111, 110, 115>>
KeyId == <<105, 100>>
KeyName_ == <<110, 97, 109, 101>>

\* The UTF-8 byte order mark written as &[239, 187, 191].
BOM == <<239, 187, 191>>

----------------------------------------------------------------------------
\* serde_json::Value, for the part of JSON the profile documents use:
\* null, strings without escapes, arrays, objects.

JNull == <<"null">>
JStr(s) == <<"str", s>>
JArr(items) == <<"arr", items>>
JObj(members) == <<"obj", members>>

IsWs(b) == b \in {32, 10, 13, 9}

RECURSIVE SkipWs(_, _)
SkipWs(bytes, pos) ==
    IF pos <= Len(bytes) /\ IsWs(bytes[pos]) THEN SkipWs(bytes, pos + 1) ELSE pos

Fail == [ok |-> FALSE, v |-> JNull, pos |-> 0]
Ok(val, p) == [ok |-> TRUE, v |-> val, pos |-> p]

\* Position of the closing quote of a string whose first character is at pos,
\* 0 when the string is not terminated or holds an escape or control byte.
RECURSIVE StringEnd(_, _)
StringEnd(bytes, pos) ==
    IF pos > Len(bytes) THEN 0
    ELSE IF bytes[pos] = 34 THEN pos
    ELSE IF bytes[pos] = 92 \/ bytes[pos] < 32 THEN 0
    ELSE StringEnd(bytes, pos + 1)

StringAt(bytes, pos, e) ==
    IF e = 0 THEN Fail ELSE Ok(SubSeq(bytes, pos + 1, e - 1), e + 1)

ParseString(bytes, pos) ==
    IF pos > Len(bytes) \/ bytes[pos] # 34 THEN Fail
    ELSE StringAt(bytes, pos, StringEnd(bytes, pos + 1))

RECURSIVE ParseValue(_, _)
RECURSIVE ParseItems(_, _, _)
RECURSIVE ParseMembers(_, _, _)

\* After an item: ',' and the next item, or ']'.
ItemsNext(bytes, p, acc) ==
    IF p > Len(bytes) THEN Fail
    ELSE IF bytes[p] = 93 THEN Ok(JArr(acc), p + 1)
    ELSE IF bytes[p] = 44 THEN ParseItems(bytes, p + 1, acc)
    ELSE Fail

ItemsAdd(bytes, r, acc) ==
    IF ~r.ok THEN Fail ELSE ItemsNext(bytes, SkipWs(bytes, r.pos), Append(acc, r.v))

\* After '[' and the items read so far: the next item, then ',' or ']'.
ParseItems(bytes, pos, acc) == ItemsAdd(bytes, ParseValue(bytes, pos), acc)

\* After a member: ',' and the next member, or '}'.
MembersNext(bytes, p, acc) ==
    IF p > Len(bytes) THEN Fail
    ELSE IF bytes[p] = 125 THEN Ok(JObj(acc), p + 1)
    ELSE IF bytes[p] = 44 THEN ParseMembers(bytes, p + 1, acc)
    ELSE Fail

MembersAdd(bytes, k, r, acc) ==
    IF ~r.ok THEN Fail
    ELSE MembersNext(bytes, SkipWs(bytes, r.pos), Append(acc, <<k.v, r.v>>))

MemberValue(bytes, k, c, acc) ==
    IF c > Len(bytes) \/ bytes[c] # 58 THEN Fail
    ELSE MembersAdd(bytes, k, ParseValue(bytes, c + 1), acc)

MemberKey(bytes, k, acc) ==
    IF ~k.ok THEN Fail ELSE MemberValue(bytes, k, SkipWs(bytes, k.pos), acc)

\* After '{' and the members read so far: "key" ':' value, then ',' or '}'.
ParseMembers(bytes, pos, acc) ==
    MemberKey(bytes, ParseString(bytes, SkipWs(bytes, pos)), acc)

StringValue(s) == IF s.ok THEN Ok(JStr(s.v), s.pos) ELSE Fail

ArrayAt(bytes, p, q) ==
    IF q <= Len(bytes) /\ bytes[q] = 93 THEN Ok(JArr(<<>>), q + 1)
    ELSE ParseItems(bytes, p + 1, <<>>)

ObjectAt(bytes, p, q) ==
    IF q <= Len(bytes) /\ bytes[q] = 125 THEN Ok(JObj(<<>>), q + 1)
    ELSE ParseMembers(bytes, p + 1, <<>>)

ValueAt(bytes, p) ==
    IF p > Len(bytes) THEN Fail
    ELSE IF bytes[p] = 34 THEN StringValue(ParseString(bytes, p))
    ELSE IF bytes[p] = 110 THEN
        IF p + 3 <= Len(bytes) /\ SubSeq(bytes, p, p + 3) = <<110, 117, 108, 108>>
        THEN Ok(JNull, p + 4) ELSE Fail
    ELSE IF bytes[p] = 91 THEN ArrayAt(bytes, p, SkipWs(bytes, p + 1))
    ELSE IF bytes[p] = 123 THEN ObjectAt(bytes, p, SkipWs(bytes, p + 1))
    ELSE Fail

ParseValue(bytes, pos) == ValueAt(bytes, SkipWs(bytes, pos))

Document(bytes, r) ==
    IF r.ok /\ SkipWs(bytes, r.pos) = Len(bytes) + 1 THEN Some(r.v) ELSE None

\* serde_json::from_slice(..).ok(): one value, then only white space.
from_slice(bytes) == Document(bytes, ParseValue(bytes, 1))

\* value[key] of serde_json: Null unless value is an object holding key; a
\* key written twice keeps its last value.
JIndex(value, key) ==
    IF value[1] # "obj" THEN JNull
    ELSE LET hits == {i \in 1..Len(value[2]) : value[2][i][1] = key}
         IN  IF hits = {} THEN JNull
             ELSE value[2][CHOOSE i \in hits : \A j \in hits : j <= i][2]

as_array(value) == IF value[1] = "arr" THEN Some(value[2]) ELSE None
as_str(value) == IF value[1] = "str" THEN Some(value[2]) ELSE None

----------------------------------------------------------------------------
\* The files and the environment a call can meet.  The profile documents are
\* written the way the tests write them: JSON text, here without optional
\* white space except the final line feed.

RECURSIVE Ser(_)
RECURSIVE SerItems(_, _)
RECURSIVE SerMembers(_, _)
Quoted(s) == <<34>> \o s \o <<34>>
SerItems(items, i) ==
    IF i > Len(items) THEN <<>>
    ELSE (IF i > 1 THEN <<44>> ELSE <<>>) \o Ser(items[i]) \o SerItems(items, i + 1)
SerMembers(members, i) ==
    IF i > Len(members) THEN <<>>
    ELSE (IF i > 1 THEN <<44>> ELSE <<>>) \o Quoted(members[i][1]) \o <<58>>
         \o Ser(members[i][2]) \o SerMembers(members, i + 1)
Ser(value) ==
    CASE value[1] = "null" -> <<110, 117, 108, 108>>
      [] value[1] = "str" -> Quoted(value[2])
      [] value[1] = "arr" -> <<91>> \o SerItems(value[2], 1) \o <<93>>
      [] value[1] = "obj" -> <<123>> \o SerMembers(value[2], 1) \o <<125>>

\* Subscription ids "a", "b" and names "x", "y", "h".
IdA == <<97>>
IdB == <<98>>
NameX == <<120>>
NameY == <<121>>
NameH == <<104>>

Rec(id, name) == JObj(<<<<KeyId, JStr(id)>>, <<KeyName_, JStr(name)>>>>)
RecNoName(id) == JObj(<<<<KeyId, JStr(id)>>, <<KeyName_, JNull>>>>)
RecNoId(name) == JObj(<<<<KeyName_, JStr(name)>>>>)

Records == {Rec(IdA, NameX), Rec(IdA, NameY), RecNoName(IdA), Rec(IdB, NameY),
            RecNoId(NameX)}

RecordLists == UNION {[1..k -> Records] : k \in 0..MaxRecords}

Profile(subs) == JObj(<<<<KeySubscriptions, subs>>>>)

Documents ==
    {Profile(JArr(l)) : l \in RecordLists}
    \cup {JObj(<<>>), JArr(<<>>), Profile(JStr(NameX)), Profile(JNull)}

\* A document as file contents; "{" alone stands for the malformed ones.
DocumentBytes == {Ser(d) \o <<10>> : d \in Documents} \cup {<<123>>}

NoFile == [exists |-> FALSE, bytes |-> <<>>]
FileOf(b) == [exists |-> TRUE, bytes |-> b]

ProfileFiles ==
    {NoFile} \cup {FileOf(b) : b \in DocumentBytes}
             \cup {FileOf(BOM \o b) : b \in DocumentBytes}

\* clouds.config as rust-ini sees it: missing, not parsable, or a list of
\* sections, each a name and a list of key/value pairs.
NoIni == [st |-> "missing", sections |-> <<>>]
BadIni == [st |-> "malformed", sections |-> <<>>]
IniOf(sections) == [st |-> "ok", sections |-> sections]

CloudsFiles ==
    {NoIni, BadIni,
     IniOf(<<<<"AzureChinaCloud", <<<<KeyName, IdB>>>>>>>>),
     IniOf(<<<<SectionName, <<<<"name", IdB>>>>>>>>),
     IniOf(<<<<SectionName, <<<<KeyName, IdA>>>>>>>>)}

\* Directories: the override directory /d and the default <home>/.azure.
DirD == <<"d">>
HomeH == <<"h">>
DirHome == <<"h", ".azure">>

\* The value of a set variable: a path, or the empty string.
EnvValues == {None, Some(<<>>), Some(DirD)}
HomeValues == {None, Some(HomeH)}

\* <home>/.azure either holds nothing or a valid pair naming "h" for "a".
HomeClouds == {NoIni, IniOf(<<<<SectionName, <<<<KeyName, IdA>>>>>>>>)}
HomeProfile(c) ==
    IF c.st = "ok" THEN FileOf(Ser(Profile(JArr(<<Rec(IdA, NameH)>>)))) ELSE NoFile

----------------------------------------------------------------------------
\* AzureConfig and the user's [azure] table of starship.toml.

DefaultFormat == "on [$symbol($subscription)]($style) "
CustomFormat == "[$subscription]($style)"
BrokenFormat == "on [$symbol"

\* AzureConfig::default(); the symbol is the seven bytes between the quotes
\* of the source line.
DefaultConfig ==
    [format |-> DefaultFormat,
     symbol |-> <<195, 175, 194, 180, 198, 146, 32>>,
     style |-> "blue bold",
     disabled |-> FALSE]

FormatValues == {None, Some(CustomFormat), Some(BrokenFormat)}
DisabledValues == {None, Some(TRUE)}

\* AzureConfig::try_load: the defaults, overridden by the keys the table sets.
try_load(table) ==
    [DefaultConfig EXCEPT
        !.format = IF IsSome(table.format) THEN table.format.v ELSE @,
        !.disabled = IF IsSome(table.disabled) THEN table.disabled.v ELSE @]

----------------------------------------------------------------------------
VARIABLES
    env,                \* the process environment: AZURE_CONFIG_DIR
    home,               \* the home directory, if one is resolvable
    clouds,             \* directory -> its clouds.config
    profiles,           \* directory -> its azureProfile.json
    toml,               \* the [azure] table of the user's configuration
    pc,                 \* position of the running call in module()
    config,             \* module(): config
    subscription_id,    \* module(): subscription_id
    subscription_name,  \* module(): subscription_name
    parsed_json,        \* get_azure_subscription_name(): parsed_json
    inspected,          \* records the find_map closure was called on
    reads,              \* paths opened by the call, in order
    warnings,           \* log::warn! lines written by the call
    outcome,            \* what the call returned
    prev                \* outcome and disabled flag of the previous call

vars == <<env, home, clouds, profiles, toml, pc, config, subscription_id,
          subscription_name, parsed_json, inspected, reads, warnings, outcome,
          prev>>

inputs == <<env, home, clouds, profiles>>
locals == <<config, subscription_id, subscription_name, parsed_json, inspected,
            reads, warnings>>

Dirs == {DirD, DirHome}

\* What a call can return.
Pending == [kind |-> "pending", segments |-> <<>>]
RetNone == [kind |-> "none", segments |-> <<>>]
RetSome(segs) == [kind |-> "some", segments |-> segs]
Panicked == [kind |-> "panic", segments |-> <<>>]

----------------------------------------------------------------------------
\* Context

\* Context::get_env, whose code is not among these sources: by the locator's
\* contract, the value of a variable that is set and not empty.
get_env(key) ==
    IF IsSome(env[key]) /\ env[key].v # <<>> THEN env[key] ELSE None

\* Context::get_home
get_home == home

\* A path string is kept as its components.
PathBuf_from(value) == value
push(path, name) == Append(path, name)
parent(path) == SubSeq(path, 1, Len(path) - 1)
file_name(path) == path[Len(path)]

----------------------------------------------------------------------------
\* get_config_file_location

\* Mutant: the home directory is tried before the override.
get_config_file_location_home_first ==
    IF IsSome(get_home) THEN Some(push(get_home.v, ".azure"))
    ELSE IF IsSome(get_env("AZURE_CONFIG_DIR"))
    THEN Some(PathBuf_from(get_env("AZURE_CONFIG_DIR").v))
    ELSE None

get_config_file_location ==
    LET dir == get_env("AZURE_CONFIG_DIR")
    IN  IF IsSome(dir) THEN Some(PathBuf_from(dir.v))
        ELSE IF IsNone(get_home) THEN None
        ELSE Some(push(get_home.v, ".azure"))

----------------------------------------------------------------------------
\* rust-ini

\* Ini::load_from_file(path).ok()
Ini_load_from_file(path) ==
    IF file_name(path) = "clouds.config" /\ parent(path) \in Dirs
       /\ clouds[parent(path)].st = "ok"
    THEN Some(clouds[parent(path)].sections)
    ELSE None

\* One list of pairs read as a map: the value of the first pair under key.
Lookup(pairs, key) ==
    LET hits == {i \in 1..Len(pairs) : pairs[i][1] = key}
    IN  IF hits = {} THEN None
        ELSE Some(pairs[CHOOSE i \in hits : \A j \in hits : i <= j][2])

\* Ini::section(Some(name)) and Properties::get(key)
section(ini, name) == Lookup(ini, name)
get(properties, key) == Lookup(properties, key)

----------------------------------------------------------------------------
\* get_azure_subscription_id: kind is "some", "none" or "panic" (an unwrap
\* of None); reads are the paths it opened.

IdResult(kind, v, reads_) == [kind |-> kind, v |-> v, reads |-> reads_]

\* Mutant: the result of load_from_file is unwrapped like the section and key.
get_azure_subscription_id_unwrap ==
    LET location == get_config_file_location
    IN  IF IsNone(location) THEN IdResult("none", <<>>, <<>>)
        ELSE
        LET config_path == push(location.v, "clouds.config")
            config_file == Ini_load_from_file(config_path)
        IN  IF IsNone(config_file) THEN IdResult("panic", <<>>, <<config_path>>)
            ELSE IF IsNone(section(config_file.v, SectionName))
            THEN IdResult("panic", <<>>, <<config_path>>)
            ELSE IF IsNone(get(section(config_file.v, SectionName).v, KeyName))
            THEN IdResult("panic", <<>>, <<config_path>>)
            ELSE IdResult("some", get(section(config_file.v, SectionName).v, KeyName).v,
                          <<config_path>>)

\* Mutant: a file that cannot be loaded gives the empty id instead of None.
get_azure_subscription_id_default ==
    LET location == get_config_file_location
    IN  IF IsNone(location) THEN IdResult("none", <<>>, <<>>)
        ELSE
        LET config_path == push(location.v, "clouds.config")
            config_file == Ini_load_from_file(config_path)
        IN  IF IsNone(config_file) THEN IdResult("some", <<>>, <<config_path>>)
            ELSE IF IsNone(section(config_file.v, SectionName))
            THEN IdResult("panic", <<>>, <<config_path>>)
            ELSE IF IsNone(get(section(config_file.v, SectionName).v, KeyName))
            THEN IdResult("panic", <<>>, <<config_path>>)
            ELSE IdResult("some", get(section(config_file.v, SectionName).v, KeyName).v,
                          <<config_path>>)

get_azure_subscription_id ==
    LET location == get_config_file_location
    IN  IF IsNone(location) THEN IdResult("none", <<>>, <<>>)
        ELSE
        LET config_path == push(location.v, "clouds.config")
            config_file == Ini_load_from_file(config_path)
        IN  IF IsNone(config_file) THEN IdResult("none", <<>>, <<config_path>>)
            ELSE
            LET azure_cloud_section == section(config_file.v, SectionName)
            IN  IF IsNone(azure_cloud_section)
                THEN IdResult("panic", <<>>, <<config_path>>)
                ELSE
                LET current_subscription_id == get(azure_cloud_section.v, KeyName)
                IN  IF IsNone(current_subscription_id)
                    THEN IdResult("panic", <<>>, <<config_path>>)
                    ELSE IdResult("some", current_subscription_id.v, <<config_path>>)

----------------------------------------------------------------------------
\* parse_json

\* File::open(path) and read_to_end
File_open(path) ==
    IF file_name(path) = "azureProfile.json" /\ parent(path) \in Dirs
    THEN profiles[parent(path)]
    ELSE NoFile

\* slice.get(lo..hi): the bytes at offsets lo to hi - 1, if the slice has them.
slice_get(bytes, lo, hi) ==
    IF lo <= hi /\ hi <= Len(bytes) THEN Some(SubSeq(bytes, lo + 1, hi)) ELSE None

\* slice.strip_prefix(prefix)
strip_prefix(bytes, prefix) ==
    IF Len(prefix) <= Len(bytes) /\ SubSeq(bytes, 1, Len(prefix)) = prefix
    THEN Some(SubSeq(bytes, Len(prefix) + 1, Len(bytes)))
    ELSE None

\* `if let Some(&[239, 187, 191]) = bytes.get(0..2)`: the slice pattern
\* matches a slice of exactly these three bytes.
bom_detected(bytes) ==
    LET head == slice_get(bytes, 0, 2)
    IN  IsSome(head) /\ head.v = BOM

\* The bytes handed to serde_json; kind "panic" is the unwrap of a failed
\* strip_prefix.
decodedbuffer(bytes) ==
    IF bom_detected(bytes)
    THEN LET rest == strip_prefix(bytes, BOM)
         IN  IF IsSome(rest) THEN [kind |-> "ok", bytes |-> rest.v]
             ELSE [kind |-> "panic", bytes |-> <<>>]
    ELSE [kind |-> "ok", bytes |-> bytes]

JsonResult(kind, v) == [kind |-> kind, v |-> v]

\* parse_json from `let bytes = ..` on: the buffer decoded and parsed.
parse_buffer(buffer) ==
    IF decodedbuffer(buffer).kind = "panic" THEN JsonResult("panic", JNull)
    ELSE IF IsSome(from_slice(decodedbuffer(buffer).bytes))
    THEN JsonResult("some", from_slice(decodedbuffer(buffer).bytes).v)
    ELSE JsonResult("none", JNull)

parse_json(json_file_path) ==
    IF ~File_open(json_file_path).exists THEN JsonResult("none", JNull)
    ELSE parse_buffer(File_open(json_file_path).bytes)

----------------------------------------------------------------------------
\* find_subscription_name and the find_map over the array

\* Mutant: the id is returned in place of the name.
find_subscription_name_id(subscription, current_subscription_id) ==
    IF as_str(JIndex(subscription, KeyId)) = Some(current_subscription_id)
    THEN as_str(JIndex(subscription, KeyId))
    ELSE None

\* Mutant: the id is not compared.
find_subscription_name_any(subscription, current_subscription_id) ==
    IF IsNone(as_str(JIndex(subscription, KeyId))) THEN None
    ELSE as_str(JIndex(subscription, KeyName_))

find_subscription_name(subscription, current_subscription_id) ==
    LET id == as_str(JIndex(subscription, KeyId))
    IN  IF IsNone(id) THEN None
        ELSE IF id.v = current_subscription_id
        THEN as_str(JIndex(subscription, KeyName_))
        ELSE None

\* Mutant: the whole array is scanned and the last Some is kept.
RECURSIVE find_map_last(_, _, _)
find_map_last(subscriptions, i, id) ==
    IF i > Len(subscriptions) THEN [res |-> None, inspected |-> Len(subscriptions)]
    ELSE IF IsSome(find_map_last(subscriptions, i + 1, id).res)
    THEN find_map_last(subscriptions, i + 1, id)
    ELSE [res |-> find_subscription_name(subscriptions[i], id),
          inspected |-> Len(subscriptions)]

\* iter().find_map(..) from element i on: the first Some the closure gives,
\* and how many elements the closure was called on.
RECURSIVE find_map(_, _, _)
find_map(subscriptions, i, id) ==
    IF i > Len(subscriptions) THEN [res |-> None, inspected |-> Len(subscriptions)]
    ELSE LET r == find_subscription_name(subscriptions[i], id)
         IN  IF IsSome(r) THEN [res |-> r, inspected |-> i]
             ELSE find_map(subscriptions, i + 1, id)

NameResult(kind, v, reads_, parsed, n) ==
    [kind |-> kind, v |-> v, reads |-> reads_, parsed |-> parsed, inspected |-> n]

get_azure_subscription_name(id) ==
    LET location == get_config_file_location
    IN  IF IsNone(location) THEN NameResult("none", <<>>, <<>>, None, 0)
        ELSE
        LET config_path == push(location.v, "azureProfile.json")
            j == parse_json(config_path)
        IN  IF j.kind = "panic" THEN NameResult("panic", <<>>, <<config_path>>, None, 0)
            ELSE IF j.kind = "none" THEN NameResult("none", <<>>, <<config_path>>, None, 0)
            ELSE
            LET subscriptions == as_array(JIndex(j.v, KeySubscriptions))
            IN  IF IsNone(subscriptions)
                THEN NameResult("none", <<>>, <<config_path>>, Some(j.v), 0)
                ELSE LET f == find_map(subscriptions.v, 1, id)
                     IN  IF IsSome(f.res)
                         THEN NameResult("some", f.res.v, <<config_path>>, Some(j.v),
                                         f.inspected)
                         ELSE NameResult("none", <<>>, <<config_path>>, Some(j.v),
                                         f.inspected)

----------------------------------------------------------------------------
\* The string formatter.  A format string is parsed into elements: literal
\* text, $variable, [elements](style) and (elements), which shows only when
\* one of its variables has a value.

Text(b) == <<"text", b>>
Var(n) == <<"var", n>>
Group(items, style) == <<"group", items, style>>
Cond(items) == <<"cond", items>>

\* StringFormatter::new(format): the elements, or None for a syntax error.
StringFormatter_new(format) ==
    CASE format = DefaultFormat ->
            Some(<<Text(<<111, 110, 32>>),
                   Group(<<Var("symbol"), Cond(<<Var("subscription")>>)>>, Var("style")),
                   Text(<<32>>)>>)
      [] format = CustomFormat ->
            Some(<<Group(<<Var("subscription")>>, Var("style"))>>)
      [] OTHER -> None

\* The closures handed to map_meta, map_style and map.
map_meta(cfg, variable) == IF variable = "symbol" THEN Some(cfg.symbol) ELSE None
map_style(cfg, variable) == IF variable = "style" THEN Some(cfg.style) ELSE None
map_variable(name, variable) ==
    IF variable = "subscription" THEN Some(name) ELSE None

Segment(style, value) == [style |-> style, value |-> value]

VarValue(cfg, name, variable) ==
    IF IsSome(map_meta(cfg, variable)) THEN map_meta(cfg, variable)
    ELSE map_variable(name, variable)

StyleOf(cfg, style) ==
    IF style[1] = "var"
    THEN (IF IsSome(map_style(cfg, style[2])) THEN map_style(cfg, style[2]).v ELSE "")
    ELSE style[2]

ShouldShow(cfg, name, items) ==
    \E i \in 1..Len(items) :
        /\ items[i][1] = "var"
        /\ IsSome(map_variable(name, items[i][2]))
        /\ map_variable(name, items[i][2]).v # <<>>

RECURSIVE ParseElements(_, _, _, _, _)
ParseElements(cfg, name, items, i, style) ==
    IF i > Len(items) THEN <<>>
    ELSE
    LET e == items[i]
        here ==
            CASE e[1] = "text" -> <<Segment(style, e[2])>>
              [] e[1] = "var" ->
                    (IF IsSome(VarValue(cfg, name, e[2]))
                     THEN <<Segment(style, VarValue(cfg, name, e[2]).v)>>
                     ELSE <<>>)
              [] e[1] = "group" -> ParseElements(cfg, name, e[2], 1, StyleOf(cfg, e[3]))
              [] e[1] = "cond" ->
                    (IF ShouldShow(cfg, name, e[2])
                     THEN ParseElements(cfg, name, e[2], 1, style)
                     ELSE <<>>)
    IN  here \o ParseElements(cfg, name, items, i + 1, style)

\* module(), the expression bound to `parsed`: Ok(segments) or Err.
parsed_segments(cfg, name) ==
    LET formatter == StringFormatter_new(cfg.format)
    IN  IF IsNone(formatter) THEN [ok |-> FALSE, segments |-> <<>>]
        ELSE [ok |-> TRUE,
              segments |-> ParseElements(cfg, name, formatter.v, 1, "")]

\* Mutant: the error arm hands back an empty module and logs nothing.
module_result_unchecked(parsed) ==
    [outcome |-> RetSome(parsed.segments), warnings |-> 0]

\* module(), from set_segments on: the value returned and the warnings logged.
module_result(parsed) ==
    IF parsed.ok THEN [outcome |-> RetSome(parsed.segments), warnings |-> 0]
    ELSE [outcome |-> RetNone, warnings |-> 1]

\* Mutant: the early return is not commented out.
disabled_return_enabled(cfg) == cfg.disabled

\* module(), `if config.disabled { //return None; }`: whether the call
\* returns here.
disabled_return(cfg) == FALSE

\* What the module prints: neighbouring segments of one style are painted
\* as one string.
RECURSIVE Painted(_, _)
Painted(segments, i) ==
    IF i > Len(segments) THEN <<>>
    ELSE LET rest == Painted(segments, i + 1)
         IN  IF rest # <<>> /\ rest[1].style = segments[i].style
             THEN <<Segment(segments[i].style, segments[i].value \o rest[1].value)>>
                  \o Tail(rest)
             ELSE <<segments[i]>> \o rest

----------------------------------------------------------------------------
\* The state machine: one call of module() after another, the user's
\* configuration edited in between.

Init ==
    /\ env \in [{"AZURE_CONFIG_DIR"} -> EnvValues]
    /\ home \in HomeValues
    /\ \E c \in CloudsFiles, hc \in HomeClouds :
        /\ clouds = [d \in Dirs |-> IF d = DirD THEN c ELSE hc]
        /\ \E p \in ProfileFiles :
            profiles = [d \in Dirs |-> IF d = DirD THEN p ELSE HomeProfile(hc)]
    /\ toml \in [format : FormatValues, disabled : {None}]
    /\ pc = "start"
    /\ config = DefaultConfig
    /\ subscription_id = None
    /\ subscription_name = None
    /\ parsed_json = None
    /\ inspected = 0
    /\ reads = <<>>
    /\ warnings = 0
    /\ outcome = Pending
    /\ prev = None

\* let mut module = ..; let config = ..; if config.disabled { }
LoadConfig ==
    /\ pc = "start"
    /\ config' = try_load(toml)
    /\ IF disabled_return(try_load(toml))
       THEN pc' = "done" /\ outcome' = RetNone
       ELSE pc' = "id" /\ outcome' = outcome
    /\ UNCHANGED <<inputs, toml, subscription_id, subscription_name, parsed_json,
                   inspected, reads, warnings, prev>>

\* let subscription_id = get_azure_subscription_id(context)?;
SubscriptionId ==
    /\ pc = "id"
    /\ LET r == get_azure_subscription_id
       IN  /\ reads' = reads \o r.reads
           /\ CASE r.kind = "some" ->
                     subscription_id' = Some(r.v) /\ pc' = "name" /\ outcome' = outcome
                [] r.kind = "none" ->
                     subscription_id' = None /\ pc' = "done" /\ outcome' = RetNone
                [] r.kind = "panic" ->
                     subscription_id' = None /\ pc' = "done" /\ outcome' = Panicked
    /\ UNCHANGED <<inputs, toml, config, subscription_name, parsed_json, inspected,
                   warnings, prev>>

\* let subscription_name = get_azure_subscription_name(context, &subscription_id)?;
SubscriptionName ==
    /\ pc = "name"
    /\ LET r == get_azure_subscription_name(subscription_id.v)
       IN  /\ reads' = reads \o r.reads
           /\ parsed_json' = r.parsed
           /\ inspected' = r.inspected
           /\ CASE r.kind = "some" ->
                     subscription_name' = Some(r.v) /\ pc' = "format" /\ outcome' = outcome
                [] r.kind = "none" ->
                     subscription_name' = None /\ pc' = "done" /\ outcome' = RetNone
                [] r.kind = "panic" ->
                     subscription_name' = None /\ pc' = "done" /\ outcome' = Panicked
    /\ UNCHANGED <<inputs, toml, config, subscription_id, warnings, prev>>

\* let parsed = ..; module.set_segments(match parsed { .. }); Some(module)
Format ==
    /\ pc = "format"
    /\ LET r == module_result(parsed_segments(config, subscription_name.v))
       IN  outcome' = r.outcome /\ warnings' = warnings + r.warnings
    /\ pc' = "done"
    /\ UNCHANGED <<inputs, toml, config, subscription_id, subscription_name,
                   parsed_json, inspected, reads, prev>>

\* The next prompt: the user has flipped `disabled` in the meantime, nothing
\* else has changed, and module() is called again.
NextPrompt ==
    /\ pc = "done"
    /\ \E d \in DisabledValues \ {toml.disabled} :
        toml' = [toml EXCEPT !.disabled = d]
    /\ prev' = Some([outcome |-> outcome, disabled |-> config.disabled])
    /\ pc' = "start"
    /\ config' = DefaultConfig
    /\ subscription_id' = None
    /\ subscription_name' = None
    /\ parsed_json' = None
    /\ inspected' = 0
    /\ reads' = <<>>
    /\ warnings' = 0
    /\ outcome' = Pending
    /\ UNCHANGED inputs

Next == LoadConfig \/ SubscriptionId \/ SubscriptionName \/ Format \/ NextPrompt

Spec == Init /\ [][Next]_vars

----------------------------------------------------------------------------
\* Vocabulary of the properties, read off the inputs alone.

\* The directory the two files are expected in.
Located ==
    IF IsSome(env["AZURE_CONFIG_DIR"]) /\ env["AZURE_CONFIG_DIR"].v # <<>>
    THEN env["AZURE_CONFIG_DIR"]
    ELSE IF IsSome(home) THEN Some(home.v \o <<".azure">>)
    ELSE None

InDir == IsSome(Located) /\ Located.v \in Dirs
CloudsHere == clouds[Located.v]
ProfileHere == profiles[Located.v]

\* The values of key `subscription` in the sections named AzureCloud.
IniIds(ini) ==
    UNION {{ini.sections[i][2][j][2] :
                j \in {k \in 1..Len(ini.sections[i][2]) :
                         ini.sections[i][2][k][1] = "subscription"}} :
            i \in {k \in 1..Len(ini.sections) : ini.sections[k][1] = "AzureCloud"}}

\* clouds.config names identifier I.
CloudsNames(I) == InDir /\ CloudsHere.st = "ok" /\ IniIds(CloudsHere) = {I}

HasBom(bytes) == Len(bytes) >= 3 /\ SubSeq(bytes, 1, 3) = <<239, 187, 191>>
WithoutBom(bytes) == SubSeq(bytes, 4, Len(bytes))

\* The records of a JSON value's top-level "subscriptions" array, <<>> when
\* there is none, and whether there is one.
HasArray(doc) == JIndex(doc, KeySubscriptions)[1] = "arr"
RecordsOf(doc) == IF HasArray(doc) THEN JIndex(doc, KeySubscriptions)[2] ELSE <<>>
IdOf(record) == JIndex(record, KeyId)
NameOf(record) == JIndex(record, KeyName_)

\* The call has ended / has run get_azure_subscription_name.
Ended == pc = "done"
Looked == Len(reads) = 2

Min(S) == CHOOSE i \in S : \A j \in S : i <= j

----------------------------------------------------------------------------
C2_MissingSectionOrKeyIsNone ==
    (Ended /\ InDir /\ CloudsHere.st = "ok" /\ IniIds(CloudsHere) = {})
        => outcome = RetNone

\* C3: a profile that starts with the byte order mark is parsed to what the
\* same bytes without the mark are parsed to.
C3_BomParsesIdentically ==
    (Looked /\ InDir /\ ProfileHere.exists /\ HasBom(ProfileHere.bytes))
        => parsed_json =
             (IF parse_buffer(WithoutBom(ProfileHere.bytes)).kind = "some"
              THEN Some(parse_buffer(WithoutBom(ProfileHere.bytes)).v)
              ELSE None)

\* C4: with neither file in the configuration directory the call returns
\* None, without a panic and without a warning.
C4_MissingFilesIsNone ==
    (Ended /\ InDir /\ CloudsHere.st = "missing" /\ ~ProfileHere.exists)
        => outcome = RetNone /\ warnings = 0

C4_Witness ==
    /\ Ended /\ InDir /\ CloudsHere.st = "missing" /\ ~ProfileHere.exists
    /\ outcome = RetNone /\ Len(reads) = 1

\* The document of a profile file: its bytes after an optional mark.
DocumentOf(file) ==
    from_slice(IF HasBom(file.bytes) THEN WithoutBom(file.bytes) ELSE file.bytes)

\* C5: with clouds.config naming I and a profile document whose
\* subscriptions field is absent, not an array, empty, or holds only records
\* of other ids, no name is resolved and the call returns None.
C5_NoMatchIsNone ==
    \A I \in {IdA, IdB} :
        (/\ Ended
         /\ CloudsNames(I)
         /\ ProfileHere.exists
         /\ IsSome(DocumentOf(ProfileHere))
         /\ \A i \in 1..Len(RecordsOf(DocumentOf(ProfileHere).v)) :
                IdOf(RecordsOf(DocumentOf(ProfileHere).v)[i]) # JStr(I))
        => subscription_name = None /\ outcome = RetNone

C5_Witness ==
    /\ Ended /\ CloudsNames(IdA) /\ Looked
    /\ ProfileHere = FileOf(Ser(Profile(JArr(<<Rec(IdB, NameY), RecNoId(NameX)>>))) \o <<10>>)
    /\ inspected = 2
    /\ outcome = RetNone

\* Indices of the records whose id is I, and of those that also have a
\* string for a name.
IdMatches(rs, I) == {i \in 1..Len(rs) : IdOf(rs[i]) = JStr(I)}
NamedMatches(rs, I) == {i \in IdMatches(rs, I) : NameOf(rs[i])[1] = "str"}

\* C6 as stated: the first record whose id is I decides; its name field is
\* the result and no later record is inspected.
C6_FirstIdMatchDecides ==
    (Looked /\ IsSome(parsed_json) /\ HasArray(parsed_json.v))
        => LET rs == RecordsOf(parsed_json.v)
               M == IdMatches(rs, subscription_id.v)
           IN  M # {} => /\ subscription_name = as_str(NameOf(rs[Min(M)]))
                         /\ inspected = Min(M)

\* C6 amended: the first record whose id is I and whose name is a string
\* decides; its name is the result and no later record is inspected; without
\* such a record every record is inspected and there is no result.
C6_FirstNamedMatchDecides ==
    (Looked /\ IsSome(parsed_json) /\ HasArray(parsed_json.v))
        => LET rs == RecordsOf(parsed_json.v)
               M == NamedMatches(rs, subscription_id.v)
           IN  IF M # {}
               THEN /\ subscription_name = Some(NameOf(rs[Min(M)])[2])
                    /\ inspected = Min(M)
               ELSE /\ subscription_name = None
                    /\ inspected = Len(rs)

\* Two records share the id, with different names: the first one's is taken
\* and the second is not looked at.
C6_Witness ==
    /\ Looked /\ IsSome(parsed_json)
    /\ RecordsOf(parsed_json.v) = <<Rec(IdA, NameY), Rec(IdA, NameX)>>
    /\ subscription_name = Some(NameY)
    /\ inspected = 1

C8_TemplateFailureIsNone ==
    Ended =>
        /\ (IsSome(subscription_name) /\ IsNone(StringFormatter_new(config.format)))
              => (outcome = RetNone /\ warnings = 1)
        /\ outcome.kind = "some"
              => (IsSome(StringFormatter_new(config.format)) /\ warnings = 0)

C8_Witness ==
    /\ Ended /\ config.format = BrokenFormat /\ IsSome(subscription_name)
    /\ outcome = RetNone /\ warnings = 1

\* C9: a call opens at most clouds.config and then azureProfile.json, each
\* at most once, and the second only when the first named an identifier.
C9_AtMostTwoReads ==
    /\ Len(reads) <= 2
    /\ Len(reads) >= 1 => file_name(reads[1]) = "clouds.config"
    /\ Len(reads) = 2 =>
          /\ file_name(reads[2]) = "azureProfile.json"
          /\ InDir /\ CloudsHere.st = "ok" /\ IniIds(CloudsHere) # {}
          /\ subscription_id \in {Some(I) : I \in IniIds(CloudsHere)}
    /\ pc = "name" => Len(reads) = 1
    /\ pc \in {"start", "id"} => reads = <<>>

C9_Witness ==
    /\ Ended /\ Len(reads) = 2 /\ outcome.kind = "some"

\* C10: two calls that differ only in the disabled flag return the same.
C10_DisabledHasNoEffect ==
    (Ended /\ IsSome(prev) /\ prev.v.disabled # config.disabled)
        => outcome = prev.v.outcome

C10_Witness ==
    /\ Ended /\ IsSome(prev) /\ config.disabled /\ ~prev.v.disabled
    /\ outcome.kind = "some"

====
